---- MODULE Spec2Model ----
(***************************************************************************)
(* The Veeam Backup & Replication integration: the refresh cycle of        *)
(* async_update_data, the coordinator that publishes its result, the       *)
(* config-entry life cycle around it and the VeeamJobSensor reads.         *)
(***************************************************************************)
EXTENDS Integers, Sequences, FiniteSets, TLC

\* ------------------------------------------------------------------ bounds
\* Longest "data" list an upstream body carries.
MaxJobs == 2

\* ------------------------------------------------------------- value sets
\* Python's None.
None == "None"

\* Config entries the host knows; EntriesInUse are those the host sets up.
EntryIds == {"e1", "e2"}
EntriesInUse == {"e1"}

\* Values the upstream server sends for the keys of a job object.
JobIds == {"j1"}
JobNames == {"A", "B"}
JobStatuses == {"success"}

KeyValues(k) ==
    CASE k = "id" -> JobIds
      [] k = "name" -> JobNames
      [] k = "status" -> JobStatuses

\* The JSON objects with keys among K: any subset of the keys may be absent.
RawDicts(K) ==
    UNION { { f \in [Ks -> JobIds \cup JobNames \cup JobStatuses] :
                \A k \in Ks : f[k] \in KeyValues(k) } : Ks \in SUBSET K }

\* The elements of a "data" list: a JSON object, or a JSON value that is none.
RawItems(K) ==
    { [isdict |-> TRUE, f |-> d] : d \in RawDicts(K) }
        \cup { [isdict |-> FALSE, f |-> <<>>] }

\* The "data" lists with elements among I.
ListsOf(I) == UNION { [1..n -> I] : n \in 0..MaxJobs }

DataLists(K) == ListsOf(RawItems(K))

\* response.text, by what json.loads makes of it:
\*   undecodable  not JSON                      nonobject  JSON, not an object
\*   nodata       an object without "data"      notlist    "data" is no list
\*   list         an object whose "data" is the list `items`
BodiesOf(I) ==
    { [kind |-> k, items |-> <<>>] :
         k \in {"undecodable", "nonobject", "nodata", "notlist"} }
        \cup { [kind |-> "list", items |-> l] : l \in ListsOf(I) }

Bodies(K) == BodiesOf(RawItems(K))

NoBody == [kind |-> "nodata", items |-> <<>>]

\* What the executor job _get_jobs comes back with: an exception of the
\* transport, or a response with a status code and a body.
ResponsesOf(I) ==
    { [raised |-> TRUE, status |-> 0, body |-> NoBody] }
        \cup { [raised |-> FALSE, status |-> 500, body |-> NoBody] }
        \cup { [raised |-> FALSE, status |-> 200, body |-> b] : b \in BodiesOf(I) }

Responses(K) == ResponsesOf(RawItems(K))

\* The responses of Spec carry job objects with an id and a status; those of
\* SpecJobs carry job objects with a name and a status and never an id.
CycleResponses == Responses({"id", "status"})
JobResponses == Responses({"name", "status"})

\* The statuses the icon is chosen by.
IconStatuses == {"running", "success", "warning", "failed"}

\* The responses of SpecOptions carry empty job objects.
ConfigResponses == ResponsesOf({ [isdict |-> TRUE, f |-> <<>>] })

\* The responses of SpecRegistry: a failure, or an object without "data".
RegistryResponses ==
    { [raised |-> FALSE, status |-> 500, body |-> NoBody],
      [raised |-> FALSE, status |-> 200, body |-> NoBody] }

\* The responses of SpecIcon carry job objects with at most a status; the
\* status of an object without one, "unknown", is none of IconStatuses.
IconResponses ==
    ResponsesOf({ [isdict |-> TRUE, f |-> d] :
                    d \in UNION { [Ks -> IconStatuses] : Ks \in SUBSET {"status"} } })

NoResponse == [raised |-> FALSE, status |-> 0, body |-> NoBody]

\* ------------------------------------------------------------------ state
VARIABLES
    entry_state,          \* host's state of each config entry
    pc,                   \* where the entry's async_update_data stands
    token,                \* the token manager's credential state
    data,                 \* coordinator.data, the published snapshot
    last_update_success,  \* coordinator.last_update_success
    last_exception,       \* message of coordinator.last_exception, or None
    hass_data,            \* entry ids present in hass.data[DOMAIN]
    sensors,              \* the VeeamJobSensor entities of each entry
    tokenOk,              \* history: ensure_valid_token returned true this cycle
    fetches,              \* history: GETs of the jobs list issued this cycle
    resp,                 \* history: the response the cycle processed
    outcome,              \* history: how async_update_data was left
    entry_cfg,            \* CONF_API_VERSION in entry.options and entry.data
    api_version,          \* api_version of async_setup_entry, as the closure holds it
    tm_api_version,       \* api_version the token manager was built with
    sent_header,          \* history: x-api-version of the GET of this cycle
    probe                 \* a job object and what NormalizeJob makes of it

vars == << entry_state, pc, token, data, last_update_success, last_exception,
           hass_data, sensors, tokenOk, fetches, resp, outcome,
           entry_cfg, api_version, tm_api_version, sent_header, probe >>

\* --------------------------------------------------------- pure functions
\* dict.get(key, default)
Get(d, k, default) == IF k \in DOMAIN d THEN d[k] ELSE default

\* Mutant: a missing name is left None, like the other missing fields.
NormalizeJob_NameNone(job) ==
    [ id          |-> Get(job, "id", None),
      name        |-> Get(job, "name", None),
      status      |-> Get(job, "status", "unknown"),
      type        |-> Get(job, "type", None),
      last_run    |-> Get(job, "lastRun", None),
      next_run    |-> Get(job, "nextRun", None),
      last_result |-> Get(job, "lastResult", None) ]

\* The dictionary appended for one job object.
NormalizeJob(job) ==
    [ id          |-> Get(job, "id", None),
      name        |-> Get(job, "name", "Unknown"),
      status      |-> Get(job, "status", "unknown"),
      type        |-> Get(job, "type", None),
      last_run    |-> Get(job, "lastRun", None),
      next_run    |-> Get(job, "nextRun", None),
      last_result |-> Get(job, "lastResult", None) ]

\* Mutant: the isinstance test is missing, every element gives a record.
ConvertJobs_KeepAll(items) ==
    [i \in 1..Len(items) |-> NormalizeJob(items[i].f)]

\* The loop over jobs_data: elements that are no dict are skipped.
RECURSIVE ConvertJobs(_)
ConvertJobs(items) ==
    IF items = <<>> THEN <<>>
    ELSE IF ~Head(items).isdict THEN ConvertJobs(Tail(items))
    ELSE <<NormalizeJob(Head(items).f)>> \o ConvertJobs(Tail(items))

Return(jobs) == [kind |-> "return", exc |-> None, msg |-> None, jobs |-> jobs]
Raise(exc, msg) == [kind |-> "raise", exc |-> exc, msg |-> msg, jobs |-> <<>>]

\* Mutant: `return jobs` stands inside the loop, so the list is returned
\* after its first element.
ParseBody_ReturnInLoop(body) ==
    CASE body.kind = "undecodable" ->
            Raise("UpdateFailed", "Failed to parse API response: JSONDecodeError")
      [] body.kind = "nonobject" ->
            Raise("AttributeError", "object has no attribute 'get'")
      [] body.kind = "nodata" -> Return(<<>>)
      [] body.kind = "notlist" -> Return(<<>>)
      [] body.kind = "list" ->
            Return(IF body.items = <<>> THEN <<>>
                   ELSE ConvertJobs(<<Head(body.items)>>))

\* json.loads(response.text) and what follows it, up to `return jobs`.
ParseBody(body) ==
    CASE body.kind = "undecodable" ->
            Raise("UpdateFailed", "Failed to parse API response: JSONDecodeError")
      [] body.kind = "nonobject" ->
            \* data.get on a list, str or number
            Raise("AttributeError", "object has no attribute 'get'")
      [] body.kind = "nodata" -> Return(ConvertJobs(<<>>))
      [] body.kind = "notlist" -> Return(<<>>)
      [] body.kind = "list" -> Return(ConvertJobs(body.items))

\* Mutant: a status other than 200 gives an empty job list and no exception.
ProcessResponse_EmptyOnBadStatus(r) ==
    IF r.raised THEN Raise("ConnectError", "ConnectError")
    ELSE IF r.status # 200 THEN Return(<<>>)
    ELSE ParseBody(r.body)

\* The body of the try block from the executor job's result on. The test
\* `response is None` has no case here: httpx returns a response or raises.
ProcessResponse(r) ==
    IF r.raised THEN Raise("ConnectError", "ConnectError")
    ELSE IF r.status # 200
         THEN Raise("UpdateFailed", "API returned status " \o ToString(r.status))
    ELSE ParseBody(r.body)

\* Mutant: the except clause is missing, so what the try block raises leaves
\* async_update_data as it is.
ExceptException_NoClause(out) == out

\* Mutant: the except clause drops the text of the exception it wraps.
ExceptException_GenericMessage(out) ==
    IF out.kind = "raise"
    THEN Raise("UpdateFailed", "Error communicating with API")
    ELSE out

\* except Exception as err: raise UpdateFailed(...) from err
ExceptException(out) ==
    IF out.kind = "raise"
    THEN Raise("UpdateFailed", "Error communicating with API: " \o out.msg)
    ELSE out

\* ---------------------------------------------------------- token manager
\* ensure_valid_token: a token that is still valid is kept; otherwise the
\* manager re-authenticates, and `auth_ok` says whether that call succeeds.
EnsureResult(tok, auth_ok) == tok = "valid" \/ auth_ok

\* The credential state ensure_valid_token leaves: a failed refresh leaves
\* the prior state untouched.
TokenAfterEnsure(tok, auth_ok) ==
    IF tok = "valid" \/ auth_ok THEN "valid" ELSE tok

\* get_authenticated_client: a client when a valid token exists, else None.
ClientAvailable(tok) == tok = "valid"

\* ------------------------------------------------------------ coordinator
Unset == [none |-> TRUE, jobs |-> <<>>]
Published(jobs) == [none |-> FALSE, jobs |-> jobs]

\* coordinator.data after update_method returned or raised.
DataAfterRefresh(old, out) ==
    IF out.kind = "return" THEN Published(out.jobs) ELSE old

\* coordinator.last_exception after update_method returned or raised.
ExceptionAfterRefresh(out) ==
    IF out.kind = "return" THEN None ELSE out.msg

\* The first statement of async_update_data.
CycleEntryPc == "token"

\* Mutant: the result of ensure_valid_token is not looked at.
TokenCheckPasses_Ignored(ok) == TRUE

\* `if not await ...ensure_valid_token(hass): raise`: the cycle goes on to
\* the client only when the call returned true.
TokenCheckPasses(ok) == ok

\* Mutant: the pair is stored whether or not the first refresh succeeded.
RegistryAfterFirstRefresh_Always(reg, e, success) == reg \cup {e}

\* hass.data[DOMAIN] once async_config_entry_first_refresh is over: the
\* entry is stored only when the call returned, i.e. the cycle succeeded.
RegistryAfterFirstRefresh(reg, e, success) ==
    IF success THEN reg \cup {e} ELSE reg

\* A refresh starts: async_update_data is entered.
StartCycle(e) ==
    /\ pc' = [pc EXCEPT ![e] = CycleEntryPc]
    /\ tokenOk' = [tokenOk EXCEPT ![e] = FALSE]
    /\ fetches' = [fetches EXCEPT ![e] = 0]
    /\ resp' = [resp EXCEPT ![e] = NoResponse]
    /\ outcome' = [outcome EXCEPT ![e] = "running"]
    /\ sent_header' = [sent_header EXCEPT ![e] = None]

\* async_update_data is left with `raw` (before the except clause); the
\* coordinator records the result, and async_setup_entry goes on or gives up
\* when this was the first refresh.
FinishCycle(e, raw) ==
    LET out == ExceptException(raw)
        ok == out.kind = "return"
        first == entry_state[e] = "setup_in_progress"
    IN  /\ pc' = [pc EXCEPT ![e] = "idle"]
        /\ outcome' = [outcome EXCEPT ![e] = IF ok THEN "return" ELSE out.exc]
        /\ data' = [data EXCEPT ![e] = DataAfterRefresh(data[e], out)]
        /\ last_update_success' = [last_update_success EXCEPT ![e] = ok]
        /\ last_exception' = [last_exception EXCEPT ![e] = ExceptionAfterRefresh(out)]
        /\ hass_data' = IF first THEN RegistryAfterFirstRefresh(hass_data, e, ok)
                        ELSE hass_data
        /\ entry_state' = [entry_state EXCEPT ![e] =
                             IF ~first THEN @
                             ELSE IF ok THEN "forwarding" ELSE "setup_retry"]

\* ---------------------------------------------------------------- sensors
\* VeeamJobSensor.__init__ on a record of coordinator.data
NewSensor(job) ==
    [ job_id   |-> Get(job, "id", Get(job, "name", None)),
      job_name |-> Get(job, "name", "Unknown Job") ]

\* job.get("id", job.get("name")) of the search loops
LookupKey(job) == Get(job, "id", Get(job, "name", None))

\* The first record of the snapshot the sensor's id matches, 0 when none.
FindJob(d, s) ==
    LET hits == { i \in 1..Len(d.jobs) : LookupKey(d.jobs[i]) = s.job_id }
    IN  IF d.none \/ d.jobs = <<>> \/ hits = {} THEN 0
        ELSE CHOOSE i \in hits : \A j \in hits : i <= j

\* VeeamJobSensor.native_value
native_value(d, s) ==
    IF FindJob(d, s) = 0 THEN None
    ELSE Get(d.jobs[FindJob(d, s)], "status", "unknown")

AttrKeys == {"job_id", "job_name", "job_type", "last_run", "next_run", "last_result"}
SourceKey(k) ==
    CASE k = "job_id" -> "id"
      [] k = "job_name" -> "name"
      [] k = "job_type" -> "type"
      [] OTHER -> k

\* VeeamJobSensor.extra_state_attributes
extra_state_attributes(d, s) ==
    IF FindJob(d, s) = 0 THEN [k \in {} |-> None]
    ELSE [k \in AttrKeys |-> Get(d.jobs[FindJob(d, s)], SourceKey(k), None)]

\* Mutant: the branch for "failed" is missing.
icon_FailedMissing(d, s) ==
    CASE native_value(d, s) = "running" -> "mdi:backup-restore"
      [] native_value(d, s) = "success" -> "mdi:check-circle"
      [] native_value(d, s) = "warning" -> "mdi:alert"
      [] OTHER -> "mdi:cloud-sync"

\* VeeamJobSensor.icon
icon(d, s) ==
    LET state == native_value(d, s)
    IN  IF state = "running" THEN "mdi:backup-restore"
        ELSE IF state = "success" THEN "mdi:check-circle"
        ELSE IF state = "warning" THEN "mdi:alert"
        ELSE IF state = "failed" THEN "mdi:close-circle"
        ELSE "mdi:cloud-sync"

\* Mutant: only the first record of the snapshot gets an entity.
SensorsFor_FirstOnly(d) ==
    IF d.none \/ d.jobs = <<>> THEN <<>>
    ELSE <<NewSensor(d.jobs[1])>>

\* sensor.async_setup_entry: one entity for each record of the snapshot
SensorsFor(d) ==
    IF d.none \/ d.jobs = <<>> THEN <<>>
    ELSE [i \in 1..Len(d.jobs) |-> NewSensor(d.jobs[i])]

\* ----------------------------------------------------------- config entry
\* DEFAULT_API_VERSION of const.py
DEFAULT_API_VERSION == "DEFAULT_API_VERSION"

\* Values CONF_API_VERSION is configured with.
ApiVersions == {"v1", "v2"}

\* An entry with CONF_API_VERSION neither in its options nor in its data.
NoConfig == [options |-> None, data |-> None]

\* Mutant: entry.data is looked at before entry.options.
ResolveApiVersion_DataFirst(c) ==
    IF c.data # None THEN c.data
    ELSE IF c.options # None THEN c.options
    ELSE DEFAULT_API_VERSION

\* entry.options.get(CONF_API_VERSION,
\*                   entry.data.get(CONF_API_VERSION, DEFAULT_API_VERSION))
ResolveApiVersion(c) ==
    IF c.options # None THEN c.options
    ELSE IF c.data # None THEN c.data
    ELSE DEFAULT_API_VERSION

\* headers={"x-api-version": api_version}
HeaderOfGet(version) == version

\* --------------------------------------------------------------- the probe
\* The keys of a job object of the upstream API.
ApiKeys == {"id", "name", "status", "type", "lastRun", "nextRun", "lastResult"}

\* The job objects with any subset of the keys; the value of a key is "x".
ProbeDicts == UNION { [Ks -> {"x"}] : Ks \in SUBSET ApiKeys }

NoProbe == [raw |-> <<>>, done |-> FALSE, out |-> NormalizeJob(<<>>)]

\* ---------------------------------------------------------------- actions
Init ==
    /\ entry_state = [e \in EntryIds |-> "not_loaded"]
    /\ pc = [e \in EntryIds |-> "idle"]
    /\ token = [e \in EntryIds |-> "absent"]
    /\ data = [e \in EntryIds |-> Unset]
    /\ last_update_success = [e \in EntryIds |-> TRUE]
    /\ last_exception = [e \in EntryIds |-> None]
    /\ hass_data = {}
    /\ sensors = [e \in EntryIds |-> <<>>]
    /\ tokenOk = [e \in EntryIds |-> FALSE]
    /\ fetches = [e \in EntryIds |-> 0]
    /\ resp = [e \in EntryIds |-> NoResponse]
    /\ outcome = [e \in EntryIds |-> "none"]
    /\ entry_cfg = [e \in EntryIds |-> NoConfig]
    /\ api_version = [e \in EntryIds |-> None]
    /\ tm_api_version = [e \in EntryIds |-> None]
    /\ sent_header = [e \in EntryIds |-> None]
    /\ probe = NoProbe

\* async_setup_entry up to the await of the first refresh, for an entry
\* configured with `c`: a fresh token manager and a fresh coordinator, whose
\* first cycle starts.
ConstructPair(e, c) ==
    /\ entry_state' = [entry_state EXCEPT ![e] = "setup_in_progress"]
    /\ token' = [token EXCEPT ![e] = "absent"]
    /\ data' = [data EXCEPT ![e] = Unset]
    /\ last_update_success' = [last_update_success EXCEPT ![e] = TRUE]
    /\ last_exception' = [last_exception EXCEPT ![e] = None]
    /\ api_version' = [api_version EXCEPT ![e] = ResolveApiVersion(c)]
    /\ tm_api_version' = [tm_api_version EXCEPT ![e] = ResolveApiVersion(c)]
    /\ StartCycle(e)

\* The host sets the entry up (also again, after a first refresh that failed).
SetupEntry(e) ==
    /\ entry_state[e] \in {"not_loaded", "setup_retry"}
    /\ ConstructPair(e, entry_cfg[e])
    /\ UNCHANGED << hass_data, sensors, entry_cfg, probe >>

\* The coordinator's timer (or a requested refresh) starts a cycle. Cycles of
\* one coordinator are taken one after the other: the source holds nothing
\* that would order overlapping ones, that is left to the coordinator class.
RefreshTick(e) ==
    /\ entry_state[e] = "loaded"
    /\ pc[e] = "idle"
    /\ StartCycle(e)
    /\ UNCHANGED << entry_state, token, data, last_update_success,
                    last_exception, hass_data, sensors >>
    /\ UNCHANGED << entry_cfg, api_version, tm_api_version, probe >>

\* `if not await token_manager.ensure_valid_token(hass): raise UpdateFailed`
EnsureValidToken(e, auth_ok) ==
    /\ pc[e] = "token"
    /\ token' = [token EXCEPT ![e] = TokenAfterEnsure(token[e], auth_ok)]
    /\ tokenOk' = [tokenOk EXCEPT ![e] = EnsureResult(token[e], auth_ok)]
    /\ IF TokenCheckPasses(EnsureResult(token[e], auth_ok))
       THEN /\ pc' = [pc EXCEPT ![e] = "client"]
            /\ UNCHANGED << entry_state, data, last_update_success,
                            last_exception, hass_data, outcome >>
       ELSE FinishCycle(e, Raise("UpdateFailed", "Failed to obtain valid access token"))
    /\ UNCHANGED << sensors, fetches, resp >>
    /\ UNCHANGED << entry_cfg, api_version, tm_api_version, sent_header, probe >>

\* client = token_manager.get_authenticated_client(); with a client the GET
\* of /api/v1/jobs is handed to the executor.
GetClient(e) ==
    /\ pc[e] = "client"
    /\ IF ClientAvailable(token[e])
       THEN /\ pc' = [pc EXCEPT ![e] = "fetch"]
            /\ fetches' = [fetches EXCEPT ![e] = @ + 1]
            /\ sent_header' = [sent_header EXCEPT ![e] = HeaderOfGet(api_version[e])]
            /\ UNCHANGED << entry_state, data, last_update_success,
                            last_exception, hass_data, outcome >>
       ELSE /\ FinishCycle(e, Raise("UpdateFailed", "No authenticated client available"))
            /\ UNCHANGED << fetches, sent_header >>
    /\ UNCHANGED << token, sensors, tokenOk, resp >>
    /\ UNCHANGED << entry_cfg, api_version, tm_api_version, probe >>

\* The executor job is over with `r`; the rest of async_update_data runs
\* without a suspension point, and the coordinator takes its result.
FetchReturns(e, r) ==
    /\ pc[e] = "fetch"
    /\ resp' = [resp EXCEPT ![e] = r]
    /\ FinishCycle(e, ProcessResponse(r))
    /\ UNCHANGED << token, sensors, tokenOk, fetches >>
    /\ UNCHANGED << entry_cfg, api_version, tm_api_version, sent_header, probe >>

\* Time passes: the token reaches its expiry.
TokenExpires(e) ==
    /\ token[e] = "valid"
    /\ entry_state[e] \in {"setup_in_progress", "forwarding", "loaded"}
    /\ token' = [token EXCEPT ![e] = "expired"]
    /\ UNCHANGED << entry_state, pc, data, last_update_success, last_exception,
                    hass_data, sensors, tokenOk, fetches, resp, outcome >>
    /\ UNCHANGED << entry_cfg, api_version, tm_api_version, sent_header, probe >>

\* async_forward_entry_setups: the sensor platform creates the entities.
SensorPlatformSetup(e) ==
    /\ entry_state[e] = "forwarding"
    /\ sensors' = [sensors EXCEPT ![e] =
                     IF e \in hass_data THEN SensorsFor(data[e]) ELSE @]
    /\ entry_state' = [entry_state EXCEPT ![e] = "loaded"]
    /\ UNCHANGED << pc, token, data, last_update_success, last_exception,
                    hass_data, tokenOk, fetches, resp, outcome >>
    /\ UNCHANGED << entry_cfg, api_version, tm_api_version, sent_header, probe >>

\* Mutant: a successful unload drops the whole hass.data[DOMAIN].
RegistryAfterUnload_DropAll(reg, e, unload_ok) ==
    IF unload_ok THEN {} ELSE reg

\* `if unload_ok: hass.data[DOMAIN].pop(entry.entry_id)`
RegistryAfterUnload(reg, e, unload_ok) ==
    IF unload_ok THEN reg \ {e} ELSE reg

\* What async_unload_entry does to a loaded entry; `unload_ok` is what
\* async_unload_platforms returns, and with it what async_unload_entry
\* returns. A successful unload removes the entities and drops the coordinator.
Unload(e, unload_ok) ==
    /\ hass_data' = RegistryAfterUnload(hass_data, e, unload_ok)
    /\ IF unload_ok
       THEN /\ sensors' = [sensors EXCEPT ![e] = <<>>]
            /\ entry_state' = [entry_state EXCEPT ![e] = "not_loaded"]
            /\ pc' = [pc EXCEPT ![e] = "idle"]
            /\ outcome' = [outcome EXCEPT ![e] = "none"]
       ELSE UNCHANGED << sensors, entry_state, pc, outcome >>

\* async_unload_entry
UnloadEntry(e, unload_ok) ==
    /\ entry_state[e] = "loaded"
    /\ Unload(e, unload_ok)
    /\ UNCHANGED << token, data, last_update_success, last_exception,
                    tokenOk, fetches, resp >>
    /\ UNCHANGED << entry_cfg, api_version, tm_api_version, sent_header, probe >>

\* Mutant: the listener patches the version of the live pair.
VersionAfterOptionsUpdate_HotPatch(cur, v) == IF v = None THEN cur ELSE v

\* update_listener leaves the api_version of the live coordinator and token
\* manager alone: it only asks for a reload.
VersionAfterOptionsUpdate(cur, v) == cur

\* The options of the entry are set to `v`. For a loaded entry the registered
\* update_listener runs: async_reload unloads the entry and, when the unload
\* succeeded, sets it up again with the new options. An entry that is not
\* loaded has no listener, and a failed unload leaves the entry as it is.
UpdateOptions(e, v, unload_ok) ==
    /\ entry_cfg[e].options # v
    /\ entry_cfg' = [entry_cfg EXCEPT ![e].options = v]
    /\ IF entry_state[e] = "loaded" /\ unload_ok
       THEN /\ hass_data' = RegistryAfterUnload(hass_data, e, unload_ok)
            /\ sensors' = [sensors EXCEPT ![e] = <<>>]
            /\ ConstructPair(e, entry_cfg'[e])
       ELSE /\ entry_state[e] # "loaded" => unload_ok
            /\ api_version' =
                  [api_version EXCEPT ![e] = VersionAfterOptionsUpdate(@, v)]
            /\ tm_api_version' =
                  [tm_api_version EXCEPT ![e] = VersionAfterOptionsUpdate(@, v)]
            /\ UNCHANGED << entry_state, pc, token, data, last_update_success,
                            last_exception, hass_data, sensors, tokenOk,
                            fetches, resp, outcome, sent_header >>
    /\ UNCHANGED probe

\* NormalizeJob applied to the job object of the probe.
ApplyNormalizeJob ==
    /\ ~probe.done
    /\ probe' = [probe EXCEPT !.done = TRUE, !.out = NormalizeJob(probe.raw)]
    /\ UNCHANGED << entry_state, pc, token, data, last_update_success,
                    last_exception, hass_data, sensors, tokenOk, fetches, resp,
                    outcome, entry_cfg, api_version, tm_api_version,
                    sent_header >>

StepOn(E, R) ==
    \E e \in E :
        \/ SetupEntry(e)
        \/ RefreshTick(e)
        \/ \E auth_ok \in BOOLEAN : EnsureValidToken(e, auth_ok)
        \/ GetClient(e)
        \/ \E r \in R : FetchReturns(e, r)
        \/ TokenExpires(e)
        \/ SensorPlatformSetup(e)
        \/ \E unload_ok \in BOOLEAN : UnloadEntry(e, unload_ok)

Step(R) == StepOn(EntriesInUse, R)

Next == Step(CycleResponses)
Spec == Init /\ [][Next]_vars

NextJobs == Step(JobResponses)
SpecJobs == Init /\ [][NextJobs]_vars

\* ----------------------------------------------------------------- claims
\* A cycle of entry e is over, and async_update_data was left by return or
\* by an exception.
Finished(e) == outcome[e] \notin {"none", "running"}

\* The cycle of entry e got a response with status 200.
Got200(e) == fetches[e] > 0 /\ ~resp[e].raised /\ resp[e].status = 200

\* C1: the GET of the jobs list is issued only after ensure_valid_token has
\* returned true in the same cycle; when it returned false the cycle goes no
\* further, ends FAILED and has issued no fetch.
C1_FetchOnlyAfterValidToken ==
    \A e \in EntryIds :
        /\ (pc[e] \in {"client", "fetch"} \/ fetches[e] > 0) => tokenOk[e]
        /\ (Finished(e) /\ ~tokenOk[e]) =>
              /\ fetches[e] = 0
              /\ outcome[e] = "UpdateFailed"
              /\ ~last_update_success[e]

\* C1 witness: a GET is in flight in a cycle whose token check returned true.
C1_Witness ==
    \E e \in EntryIds : pc[e] = "fetch" /\ fetches[e] = 1 /\ tokenOk[e]

\* The cycle of entry e is over and one of its steps failed: the token check,
\* the client, the transport, the status or the decoding of the body.
FailureCase(e) ==
    /\ Finished(e)
    /\ \/ ~tokenOk[e]
       \/ fetches[e] = 0
       \/ resp[e].raised
       \/ resp[e].status # 200
       \/ resp[e].body.kind = "undecodable"

\* C2: the published snapshot is changed by no step inside a cycle and by no
\* step that ends a cycle FAILED (a failed step, or an update-failed
\* outcome), so such a cycle leaves the snapshot as it was when it started.
C2_FailedCycleKeepsSnapshot ==
    [][ \A e \in EntryIds :
          ( outcome[e] = "running"
            /\ (outcome'[e] # "return" \/ FailureCase(e)') ) => data'[e] = data[e]
      ]_vars

\* C2 witness: a cycle ended FAILED on status 500 while a non-empty snapshot
\* is published.
C2_Witness ==
    \E e \in EntryIds :
        /\ outcome[e] = "UpdateFailed" /\ fetches[e] = 1 /\ resp[e].status = 500
        /\ ~data[e].none /\ data[e].jobs # <<>>

\* C3 (as stated): a cycle whose token check, fetch with status 200 and
\* decode all succeeded ended SUCCESS, published exactly the normalized jobs
\* of its body and cleared the last error.
C3_Stated ==
    \A e \in EntryIds :
        (Finished(e) /\ Got200(e) /\ resp[e].body.kind # "undecodable") =>
            /\ outcome[e] = "return"
            /\ last_update_success[e]
            /\ last_exception[e] = None
            /\ data[e] = Published(ConvertJobs(resp[e].body.items))

\* C5: every failure inside a cycle leaves async_update_data as UpdateFailed
\* and the coordinator with a failed update and one last-error message.
C5_EveryFailureIsUpdateFailed ==
    \A e \in EntryIds :
        /\ outcome[e] \in {"none", "running", "return", "UpdateFailed"}
        /\ outcome[e] = "UpdateFailed" =>
              ~last_update_success[e] /\ last_exception[e] # None
        /\ ( Finished(e) /\
             \/ ~tokenOk[e]
             \/ fetches[e] = 0
             \/ resp[e].raised
             \/ resp[e].status # 200
             \/ resp[e].body.kind \in {"undecodable", "nonobject"}
           ) => outcome[e] = "UpdateFailed"

\* C5 witness: a cycle failed on an exception that is no UpdateFailed, raised
\* while the decoded body was processed.
C5_Witness ==
    \E e \in EntryIds :
        /\ outcome[e] = "UpdateFailed" /\ Got200(e)
        /\ resp[e].body.kind = "nonobject"

\* C6 (as stated): a decoded body without a "data" list, a body that is no
\* JSON object included, gives an empty job list and a cycle that succeeds.
C6_Stated ==
    \A e \in EntryIds :
        ( Finished(e) /\ Got200(e)
          /\ resp[e].body.kind \in {"nonobject", "nodata", "notlist"} ) =>
            outcome[e] = "return" /\ data[e] = Published(<<>>)

\* The identifier of a job record: its id, or its name when it has no id.
Ident(job) == IF job.id # None THEN job.id ELSE job.name

\* The identifier of the record a sensor was created for.
SensorIdent(s) == IF s.job_id # None THEN s.job_id ELSE s.job_name

\* The sensor was created for a record without an id.
IdLess(s) == s.job_id = None \/ s.job_id = s.job_name

\* The records of snapshot d that are the job sensor s was created for.
SameJob(d, s) ==
    IF d.none THEN {}
    ELSE { j \in 1..Len(d.jobs) : Ident(d.jobs[j]) = SensorIdent(s) }

\* C7 (as stated): a sensor created for a record without an id reads, in
\* every snapshot, the status of the id-less record with its name and never
\* that of another job.
C7_Stated ==
    \A e \in EntryIds : \A i \in 1..Len(sensors[e]) :
        LET s == sensors[e][i]
            d == data[e]
            k == FindJob(d, s)
        IN  IdLess(s) =>
              /\ k # 0 => k \in SameJob(d, s)
              /\ SameJob(d, s) # {} =>
                    native_value(d, s) \in { d.jobs[j].status : j \in SameJob(d, s) }

\* C8 (as stated): no two records of a published snapshot have the same
\* identifier.
C8_Stated ==
    \A e \in EntryIds :
        ~data[e].none =>
            \A i, j \in 1..Len(data[e].jobs) :
                i # j => Ident(data[e].jobs[i]) # Ident(data[e].jobs[j])

\* C9: while async_setup_entry waits for the first refresh the entry is
\* neither stored nor served and that one cycle is still running; the pair
\* is stored exactly in the step in which the first cycle ends SUCCESS, and
\* sensors exist only for a stored entry; after a FAILED first cycle setup is
\* not ready, nothing is stored and no sensor exists.
C9_ServeOnlyAfterFirstSuccess ==
    /\ [](\A e \in EntryIds :
            /\ entry_state[e] = "setup_in_progress" =>
                  outcome[e] = "running" /\ e \notin hass_data /\ sensors[e] = <<>>
            /\ entry_state[e] = "setup_retry" =>
                  /\ outcome[e] = "UpdateFailed"
                  /\ e \notin hass_data /\ sensors[e] = <<>>
            /\ e \in hass_data => entry_state[e] \in {"forwarding", "loaded"}
            /\ sensors[e] # <<>> => e \in hass_data /\ entry_state[e] = "loaded")
    /\ [][ \A e \in EntryIds :
             (e \notin hass_data /\ e \in hass_data') =>
                /\ entry_state[e] = "setup_in_progress"
                /\ outcome[e] = "running" /\ outcome'[e] = "return"
                /\ last_update_success'[e]
         ]_vars

\* C9 witness: the first cycle ended SUCCESS, the pair is stored and the
\* sensor platform is about to be set up.
C9_Witness ==
    \E e \in EntryIds :
        /\ entry_state[e] = "forwarding" /\ e \in hass_data
        /\ outcome[e] = "return" /\ ~data[e].none

\* C10 (as stated): a sensor whose job is not in the current snapshot has no
\* state and no attributes; once the job is in the snapshot again the sensor
\* reports a status.
C10_Stated ==
    \A e \in EntryIds : \A i \in 1..Len(sensors[e]) :
        LET s == sensors[e][i]
            d == data[e]
        IN  /\ SameJob(d, s) = {} =>
                 /\ native_value(d, s) = None
                 /\ DOMAIN extra_state_attributes(d, s) = {}
            /\ SameJob(d, s) # {} => native_value(d, s) # None

\* ----------------------------------------------------- further specifications
NextIcon == Step(IconResponses)
SpecIcon == Init /\ [][NextIcon]_vars

\* The entries E work on responses R while their options are set to values
\* of V (None: the option is removed).
OptionsStep(E, R, V) ==
    \/ StepOn(E, R)
    \/ \E e \in E : \E v \in V : \E unload_ok \in BOOLEAN :
          UpdateOptions(e, v, unload_ok)

\* One entry, created with or without CONF_API_VERSION in its data.
InitOptions ==
    /\ entry_state = [e \in EntryIds |-> "not_loaded"]
    /\ pc = [e \in EntryIds |-> "idle"]
    /\ token = [e \in EntryIds |-> "absent"]
    /\ data = [e \in EntryIds |-> Unset]
    /\ last_update_success = [e \in EntryIds |-> TRUE]
    /\ last_exception = [e \in EntryIds |-> None]
    /\ hass_data = {}
    /\ sensors = [e \in EntryIds |-> <<>>]
    /\ tokenOk = [e \in EntryIds |-> FALSE]
    /\ fetches = [e \in EntryIds |-> 0]
    /\ resp = [e \in EntryIds |-> NoResponse]
    /\ outcome = [e \in EntryIds |-> "none"]
    /\ \E v \in {None} \cup ApiVersions :
          entry_cfg = [e \in EntryIds |->
                         IF e \in EntriesInUse THEN [options |-> None, data |-> v]
                         ELSE NoConfig]
    /\ api_version = [e \in EntryIds |-> None]
    /\ tm_api_version = [e \in EntryIds |-> None]
    /\ sent_header = [e \in EntryIds |-> None]
    /\ probe = NoProbe

NextOptions == OptionsStep(EntriesInUse, ConfigResponses, {None} \cup ApiVersions)
SpecOptions == InitOptions /\ [][NextOptions]_vars

\* Two entries; the options of each are set once, to "v1".
NextRegistry == OptionsStep(EntryIds, RegistryResponses, {"v1"})
SpecRegistry == Init /\ [][NextRegistry]_vars

\* NormalizeJob on every job object of ProbeDicts; no entry is set up.
InitNormalize ==
    /\ entry_state = [e \in EntryIds |-> "not_loaded"]
    /\ pc = [e \in EntryIds |-> "idle"]
    /\ token = [e \in EntryIds |-> "absent"]
    /\ data = [e \in EntryIds |-> Unset]
    /\ last_update_success = [e \in EntryIds |-> TRUE]
    /\ last_exception = [e \in EntryIds |-> None]
    /\ hass_data = {}
    /\ sensors = [e \in EntryIds |-> <<>>]
    /\ tokenOk = [e \in EntryIds |-> FALSE]
    /\ fetches = [e \in EntryIds |-> 0]
    /\ resp = [e \in EntryIds |-> NoResponse]
    /\ outcome = [e \in EntryIds |-> "none"]
    /\ entry_cfg = [e \in EntryIds |-> NoConfig]
    /\ api_version = [e \in EntryIds |-> None]
    /\ tm_api_version = [e \in EntryIds |-> None]
    /\ sent_header = [e \in EntryIds |-> None]
    /\ \E d \in ProbeDicts : probe = [NoProbe EXCEPT !.raw = d]

NextNormalize == ApplyNormalizeJob
SpecNormalize == InitNormalize /\ [][NextNormalize]_vars

\* C12: the icon of every sensor is the one the table gives for the status
\* the sensor reads now: one icon each for running, success, warning and
\* failed, and mdi:cloud-sync for every other value and for no status.
C12_IconTable ==
    \A e \in EntryIds : \A i \in 1..Len(sensors[e]) :
        LET v == native_value(data[e], sensors[e][i])
            ic == icon(data[e], sensors[e][i])
        IN  /\ v = "running" => ic = "mdi:backup-restore"
            /\ v = "success" => ic = "mdi:check-circle"
            /\ v = "warning" => ic = "mdi:alert"
            /\ v = "failed" => ic = "mdi:close-circle"
            /\ v \notin {"running", "success", "warning", "failed"} =>
                  ic = "mdi:cloud-sync"

\* C12 witness: a sensor whose job is missing from the snapshot reads no
\* status and shows mdi:cloud-sync.
C12_Witness ==
    \E e \in EntryIds :
        /\ sensors[e] # <<>> /\ ~data[e].none /\ data[e].jobs = <<>>
        /\ native_value(data[e], sensors[e][1]) = None
        /\ icon(data[e], sensors[e][1]) = "mdi:cloud-sync"

\* The entry holds a live pair: async_setup_entry has constructed its
\* coordinator and token manager, and no unload has dropped them since.
LivePair(e) == entry_state[e] \in {"setup_in_progress", "forwarding", "loaded"}

\* The step constructs a fresh pair for entry e.
FreshPair(e) ==
    /\ entry_state[e] # "setup_in_progress"
    /\ entry_state'[e] = "setup_in_progress"
    /\ data'[e] = Unset
    /\ token'[e] = "absent"
    /\ pc'[e] = CycleEntryPc
    /\ e \notin hass_data'

\* C13 (as stated): an update of the options of a loaded entry, whose
\* update_listener is registered, removes the current pair and constructs a
\* fresh one.
C13_Stated ==
    [][ \A e \in EntryIds :
          (entry_cfg'[e] # entry_cfg[e] /\ entry_state[e] = "loaded") =>
              (FreshPair(e) /\ e \notin hass_data')
      ]_vars

\* C13: an update of the options never changes the api_version of a live
\* coordinator or token manager: the version a pair holds changes only in a
\* step that constructs a fresh pair, an options update of a loaded entry
\* either fails to unload and changes nothing of the pair, or removes the
\* pair and constructs a fresh one, and every GET of a coordinator carries
\* the version the coordinator was constructed with.
C13_OptionsNeverPatchLivePair ==
    /\ [][ \A e \in EntryIds :
            /\ ( api_version'[e] # api_version[e]
                 \/ tm_api_version'[e] # tm_api_version[e] ) => FreshPair(e)
            /\ ( entry_cfg'[e] # entry_cfg[e] /\ ~FreshPair(e) ) =>
                    /\ api_version'[e] = api_version[e]
                    /\ tm_api_version'[e] = tm_api_version[e]
                    /\ token'[e] = token[e]
                    /\ data'[e] = data[e]
                    /\ entry_state'[e] = entry_state[e]
                    /\ hass_data' = hass_data
            /\ ( entry_cfg'[e] # entry_cfg[e] /\ FreshPair(e) ) =>
                    entry_state[e] = "loaded"
            /\ ( sent_header'[e] # sent_header[e] /\ sent_header'[e] # None ) =>
                    /\ sent_header'[e] = api_version[e]
                    /\ api_version'[e] = api_version[e]
          ]_vars
    /\ [](\A e \in EntryIds :
            (LivePair(e) /\ sent_header[e] # None) => sent_header[e] = api_version[e])

\* C13 witness: the options were changed to "v2" under a live coordinator
\* constructed with "v1" that was not replaced, and the GET of its cycle
\* still carries "v1".
C13_Witness ==
    \E e \in EntryIds :
        /\ entry_state[e] = "loaded"
        /\ entry_cfg[e].options = "v2"
        /\ api_version[e] = "v1" /\ tm_api_version[e] = "v1"
        /\ pc[e] = "fetch" /\ sent_header[e] = "v1"

\* The positions of a "data" list that hold key-value objects, and how many
\* of them lie at or before position i.
ObjectPositions(items) == { i \in 1..Len(items) : items[i].isdict }
ObjectsUpTo(items, i) == Cardinality({ j \in ObjectPositions(items) : j <= i })

\* C14: a cycle that got status 200 and a body whose "data" is a list ended
\* SUCCESS, and the list it published has one record for each element that
\* is a key-value object, in the order of the input: the k-th object of the
\* input gives the k-th record; so the output is never longer than the input.
C14_NormalizedIsSubsequence ==
    \A e \in EntryIds :
        (Finished(e) /\ Got200(e) /\ resp[e].body.kind = "list") =>
            LET items == resp[e].body.items
                jobs == data[e].jobs
            IN  /\ outcome[e] = "return"
                /\ ~data[e].none
                /\ Len(jobs) = Cardinality(ObjectPositions(items))
                /\ Len(jobs) <= Len(items)
                /\ \A i \in ObjectPositions(items) :
                      jobs[ObjectsUpTo(items, i)] = NormalizeJob(items[i].f)

\* C14 witness: a list of an element that is no object followed by an
\* object was published as the one record of the object.
C14_Witness ==
    \E e \in EntryIds :
        /\ Finished(e) /\ Got200(e) /\ resp[e].body.kind = "list"
        /\ Len(resp[e].body.items) = 2
        /\ ~resp[e].body.items[1].isdict /\ resp[e].body.items[2].isdict
        /\ Len(data[e].jobs) = 1
        /\ data[e].jobs[1].id = "j1"

\* The fields of a normalized record, and the key of the job object each
\* field is read from.
RecordFields ==
    {"id", "name", "status", "type", "last_run", "next_run", "last_result"}
FieldSource(k) ==
    CASE k = "last_run" -> "lastRun"
      [] k = "next_run" -> "nextRun"
      [] k = "last_result" -> "lastResult"
      [] OTHER -> k

\* C15: the record made of a job object has exactly the seven fields; a
\* field whose key the object has holds the object's value, a missing name
\* is "Unknown", a missing status is "unknown" and every other missing field
\* is None, whichever subset of the keys the object has.
C15_SevenFieldsWithDefaults ==
    probe.done =>
        /\ DOMAIN probe.out = RecordFields
        /\ \A k \in RecordFields :
              IF FieldSource(k) \in DOMAIN probe.raw
              THEN probe.out[k] = probe.raw[FieldSource(k)]
              ELSE probe.out[k] = ( CASE k = "name" -> "Unknown"
                                      [] k = "status" -> "unknown"
                                      [] OTHER -> None )

\* C15 witness: an object with only an id was normalized to a record with
\* the name "Unknown", the status "unknown" and no type.
C15_Witness ==
    /\ probe.done
    /\ DOMAIN probe.raw = {"id"}
    /\ probe.out.id = "x"
    /\ probe.out.name = "Unknown"
    /\ probe.out.status = "unknown"
    /\ probe.out.type = None

\* The reason a FAILED cycle carries for each of the four steps, as the
\* coordinator records it; `status` is the status code of the response.
TokenReason == "Error communicating with API: Failed to obtain valid access token"
ClientReason == "Error communicating with API: No authenticated client available"
StatusReason(status) ==
    "Error communicating with API: API returned status " \o ToString(status)
ParseReason ==
    "Error communicating with API: Failed to parse API response: JSONDecodeError"

\* C16: a cycle that ended FAILED carries the reason of the step that
\* failed: the token check, the client, the status of the response or the
\* decoding of the body; the four reasons differ from each other, and a
\* cycle that failed at the token check or at the client issued no GET and
\* processed no response.
C16_FailedCycleCarriesStepReason ==
    \A e \in EntryIds :
        (Finished(e) /\ outcome[e] # "return") =>
            /\ ~tokenOk[e] =>
                  /\ last_exception[e] = TokenReason
                  /\ fetches[e] = 0 /\ resp[e] = NoResponse
            /\ (tokenOk[e] /\ fetches[e] = 0) =>
                  /\ last_exception[e] = ClientReason
                  /\ resp[e] = NoResponse
            /\ (fetches[e] > 0 /\ ~resp[e].raised /\ resp[e].status # 200) =>
                  last_exception[e] = StatusReason(resp[e].status)
            /\ (Got200(e) /\ resp[e].body.kind = "undecodable") =>
                  last_exception[e] = ParseReason
            /\ Cardinality({ TokenReason, ClientReason,
                             StatusReason(resp[e].status), ParseReason }) = 4

\* C16 witness: the token check passed, the token expired before the client
\* was asked for, and the cycle ended FAILED with the reason of the client
\* step and without a GET.
C16_Witness ==
    \E e \in EntryIds :
        /\ Finished(e) /\ tokenOk[e] /\ fetches[e] = 0
        /\ outcome[e] = "UpdateFailed"
        /\ last_exception[e] = ClientReason

\* The complete normalized job list of a response with status 200.
CompleteList(r) ==
    IF r.body.kind = "list" THEN ConvertJobs(r.body.items) ELSE <<>>

\* C17: the published snapshot is unset until the first successful cycle of
\* a coordinator, and changes only in the one step that ends a cycle
\* SUCCESS, to the complete normalized list of the response of that cycle;
\* no step of a running cycle and no other step changes it, so a read that
\* interleaves with a cycle sees the list of an earlier completed cycle.
C17_SnapshotCompleteOrUnset ==
    /\ [][ \A e \in EntryIds :
            data'[e] # data[e] =>
                \/ FreshPair(e) /\ data'[e] = Unset
                \/ /\ outcome[e] = "running" /\ pc[e] = "fetch"
                   /\ outcome'[e] = "return" /\ pc'[e] = "idle"
                   /\ Got200(e)'
                   /\ data'[e] = Published(CompleteList(resp'[e]))
                   /\ Len(data'[e].jobs) =
                         Cardinality(ObjectPositions(resp'[e].body.items))
          ]_vars
    /\ [](\A e \in EntryIds :
            /\ (Finished(e) /\ outcome[e] = "return") =>
                   data[e] = Published(CompleteList(resp[e]))
            /\ data[e].none => data[e] = Unset)

\* C17 witness: a cycle is waiting for its response while the two records
\* of an earlier cycle are published and read by the sensors.
C17_Witness ==
    \E e \in EntryIds :
        /\ entry_state[e] = "loaded" /\ pc[e] = "fetch"
        /\ ~data[e].none /\ Len(data[e].jobs) = 2
        /\ sensors[e] # <<>>
        /\ native_value(data[e], sensors[e][1]) # None

\* C18: the sensors of an entry are created by the one step that sets the
\* sensor platform up, one for each record of the snapshot the first cycle
\* published, in order and none when that snapshot is empty; after that they
\* change only when the entry is unloaded, so a later snapshot with more
\* records adds no sensor.
C18_SubscribersFixedAtPlatformSetup ==
    /\ [][ \A e \in EntryIds :
            /\ (entry_state[e] = "forwarding" /\ entry_state'[e] = "loaded") =>
                   /\ data'[e] = data[e] /\ ~data[e].none
                   /\ Len(sensors'[e]) = Len(data[e].jobs)
                   /\ \A i \in 1..Len(data[e].jobs) :
                         /\ sensors'[e][i].job_id = data[e].jobs[i].id
                         /\ sensors'[e][i].job_name = data[e].jobs[i].name
            /\ sensors'[e] # sensors[e] =>
                   \/ entry_state[e] = "forwarding" /\ entry_state'[e] = "loaded"
                   \/ /\ entry_state[e] = "loaded"
                      /\ entry_state'[e] \in {"not_loaded", "setup_in_progress"}
                      /\ sensors'[e] = <<>>
          ]_vars
    /\ [](\A e \in EntryIds :
            (entry_state[e] # "loaded") => sensors[e] = <<>>)

\* C18 witness: the first snapshot had one record and the published one has
\* two: the loaded entry still has the one sensor.
C18_Witness ==
    \E e \in EntryIds :
        /\ entry_state[e] = "loaded"
        /\ Len(sensors[e]) = 1
        /\ ~data[e].none /\ Len(data[e].jobs) = 2

\* C19: hass.data[DOMAIN] holds the pair of an entry exactly while the
\* entry's first cycle has succeeded and the entry has not been unloaded
\* since; a pair is added only by the step that ends a first cycle SUCCESS,
\* is removed only by a successful unload of its own entry (an unload that
\* fails changes nothing), and no step changes the pair of another entry.
C19_RegistryFollowsLifeCycle ==
    /\ [](\A e \in EntryIds :
            e \in hass_data <=> entry_state[e] \in {"forwarding", "loaded"})
    /\ [][ \A e \in EntryIds :
            /\ (e \notin hass_data /\ e \in hass_data') =>
                   /\ entry_state[e] = "setup_in_progress"
                   /\ outcome[e] = "running" /\ outcome'[e] = "return"
                   /\ last_update_success'[e]
                   /\ hass_data' = hass_data \cup {e}
            /\ (e \in hass_data /\ e \notin hass_data') =>
                   /\ entry_state[e] = "loaded"
                   /\ entry_state'[e] \in {"not_loaded", "setup_in_progress"}
                   /\ hass_data' = hass_data \ {e}
            /\ (entry_state[e] = "loaded" /\ entry_state'[e] = "loaded") =>
                   (e \in hass_data /\ e \in hass_data')
          ]_vars

\* C19 witness: e1 was set up and then unloaded while e2 is loaded: the
\* pair of e1 is gone and the pair of e2 is still there.
C19_Witness ==
    /\ entry_state["e1"] = "not_loaded" /\ api_version["e1"] # None
    /\ "e1" \notin hass_data
    /\ entry_state["e2"] = "loaded" /\ "e2" \in hass_data

\* The version an entry configured with `c` asks for: that of its options,
\* else that of its data, else the default.
ConfiguredVersion(c) ==
    IF c.options \in ApiVersions THEN c.options
    ELSE IF c.data \in ApiVersions THEN c.data
    ELSE DEFAULT_API_VERSION

\* C20: a pair is constructed with the version of the entry's options when
\* they hold one, else with that of the entry's data, else with the default;
\* the token manager holds the same value as the coordinator, and every GET
\* of the coordinator carries it as x-api-version.
C20_VersionResolvedAndUsed ==
    /\ [][ \A e \in EntryIds :
            FreshPair(e) =>
                /\ api_version'[e] = ConfiguredVersion(entry_cfg'[e])
                /\ tm_api_version'[e] = ConfiguredVersion(entry_cfg'[e])
          ]_vars
    /\ [](\A e \in EntryIds :
            LivePair(e) =>
                /\ api_version[e] \in ApiVersions \cup {DEFAULT_API_VERSION}
                /\ tm_api_version[e] = api_version[e]
                /\ pc[e] = "fetch" => sent_header[e] = api_version[e]
                /\ sent_header[e] \in {None, api_version[e]})

\* C20 witness: the data of the entry hold "v1" and its options "v2"; the
\* pair was constructed with "v2" and the GET in flight carries "v2".
C20_Witness ==
    \E e \in EntryIds :
        /\ entry_cfg[e] = [options |-> "v2", data |-> "v1"]
        /\ api_version[e] = "v2" /\ tm_api_version[e] = "v2"
        /\ pc[e] = "fetch" /\ sent_header[e] = "v2"

====
